---- MODULE Spec2Model ----
(***************************************************************************)
(* BigQuery-Pandas-Lite: the BQLite client facade (src/bqlite/bqlite.py).  *)
(*                                                                         *)
(* Three specifications share the variables below.                         *)
(*   SpecToDf  the result materializer BQLite.__to_df as a pure function   *)
(*             of a column-major row page and a schema.                    *)
(*   Spec      one BQLite instance, the remote warehouse it talks to, and  *)
(*             its public operations run one after another.                *)
(*   SpecReadToBq  the same instance with read_to_bq the only operation    *)
(*             called, and the thread of control running on (fairness).    *)
(***************************************************************************)
EXTENDS Integers, Sequences, FiniteSets, TLC

VARIABLES
    schema,             \* query.schema: the schema argument of __to_df
    rows,               \* the column-major row page: read_bq's buffer, __to_df's argument
    result,             \* what the last call returned or raised
    pc,                 \* position of the single thread of control
    given_credentials,  \* the credentials argument of __init__
    credentials,        \* self.__credentials
    json_key_filepath,  \* self.__json_key_filepath
    fileLoads,          \* calls of Credentials.from_service_account_file so far
    defaultLookups,     \* calls of google.auth.default so far
    usedCreds,          \* the credentials each operation built its client with
    datasets,           \* remote: the datasets that exist
    tables,             \* remote: the tables that exist, with their schemas
    tablesBefore,       \* remote tables when the current operation began
    op,                 \* the public operation in progress or last finished
    opCount,            \* public operations begun so far
    calls,              \* the remote requests the operation has issued, in order
    job,                \* the query job as last observed: state and error_result
    observedError,      \* the job was observed DONE with an error_result
    wait_timeout,       \* read_to_bq: the wait_timeout argument
    retry_count,        \* read_to_bq: retry_count, in tenths (10 * retry_count)
    ticks,              \* read_to_bq: sleep-and-reload ticks performed
    ticksAfterDone,     \* read_to_bq: ticks performed with DONE already observed
    warned,             \* read_to_bq: the timeout warning was logged
    reloads,            \* __wait_for_job: job.reload() calls performed
    pages,              \* read_bq: the result pages the service holds, row-major
    page_token,         \* read_bq: the page the continuation token names, 0 for none
    fetched             \* read_bq: the pages requested, in order

(***************************************************************************)
(* Bounds of the model.                                                    *)
(***************************************************************************)
MaxRows == 2        \* rows of a materialized page
MaxRepeat == 2      \* nested values of one row of a REPEATED column
MaxCells == 3       \* raw cells of a materialized page
MaxOps == 3         \* public operations on the instance
MaxWaitTimeout == 12 \* largest wait_timeout (seconds) passed to read_to_bq
MaxReloads == 2     \* reloads __wait_for_job needs before the job is DONE
MaxPages == 2       \* result pages of one query
MaxPageRows == 1    \* rows of one result page
MaxWidth == 2       \* columns of a query result

\* the schema lengths of the materialized pages: none, one column, and two
\* (what it takes to tell the order and the alignment of columns)
SchemaLens == {0, 1, 2}

(***************************************************************************)
(* Python values.  A raw cell of a row page is None or a string; casting   *)
(* gives floats, booleans and timestamps; a pandas Series holds NaN / NaT  *)
(* for a missing float / datetime.  Each kind is a record with a field of  *)
(* its own, so values of different kinds compare unequal.                  *)
(***************************************************************************)
None == [none |-> TRUE]
Str(s) == [str |-> s]
Num(n) == [num |-> n]
Bool(b) == [bool |-> b]
Ts(n) == [ts |-> n]
NaN == [nan |-> TRUE]
NaT == [nat |-> TRUE]

\* pandas' notion of a missing value (pd.isnull)
IsNull(v) == v \in {None, NaN, NaT}

\* row_no=None of cast_all_column / cast_column
NoRowNo == -1

(***************************************************************************)
(* The cast functions of cast_mapping.                                     *)
(***************************************************************************)
\* str(value): a string is returned as it is
py_str(value) == Str(value.str)

\* float(value) of a decimal string
py_float(value) ==
    CASE value.str = "0" -> Num(0)
      [] value.str = "7" -> Num(7)
      [] value.str = "42" -> Num(42)

\* to_flg: exact comparison with the literal 'true'
to_flg(value) == Bool(value = Str("true"))

\* pd.Timestamp(value) of an ISO date string (the date as yyyymmdd)
pd_Timestamp(value) ==
    CASE value.str = "2017-01-01" -> Ts(20170101)
      [] value.str = "2017-12-31" -> Ts(20171231)

KnownTypes ==
    {"STRING", "DATETIME", "DATE", "TIME", "FLOAT", "INTEGER", "BOOLEAN", "TIMESTAMP"}

\* cast_mapping with a default of (str, None) for a type it does not know
cast_mapping_DefaultString(values_type) ==
    CASE values_type \in {"FLOAT", "INTEGER"} -> [fn |-> "float", dtype |-> "float64"]
      [] values_type = "BOOLEAN"   -> [fn |-> "to_flg",       dtype |-> "bool"]
      [] values_type = "TIMESTAMP" -> [fn |-> "pd.Timestamp", dtype |-> "datetime64[ns]"]
      [] OTHER                     -> [fn |-> "str",          dtype |-> "None"]

\* cast_mapping.get(values_type, (None, None)): the cast function and the
\* Series dtype of a logical type
cast_mapping(values_type) ==
    CASE values_type = "STRING"    -> [fn |-> "str",          dtype |-> "None"]
      [] values_type = "DATETIME"  -> [fn |-> "str",          dtype |-> "None"]
      [] values_type = "DATE"      -> [fn |-> "str",          dtype |-> "None"]
      [] values_type = "TIME"      -> [fn |-> "str",          dtype |-> "None"]
      [] values_type = "FLOAT"     -> [fn |-> "float",        dtype |-> "float64"]
      [] values_type = "INTEGER"   -> [fn |-> "float",        dtype |-> "float64"]
      [] values_type = "BOOLEAN"   -> [fn |-> "to_flg",       dtype |-> "bool"]
      [] values_type = "TIMESTAMP" -> [fn |-> "pd.Timestamp", dtype |-> "datetime64[ns]"]
      [] OTHER                     -> [fn |-> "None",         dtype |-> "None"]

\* cast_function(value)
Apply(cast_function, value) ==
    CASE cast_function = "str"          -> py_str(value)
      [] cast_function = "float"        -> py_float(value)
      [] cast_function = "to_flg"       -> to_flg(value)
      [] cast_function = "pd.Timestamp" -> pd_Timestamp(value)

\* cast_column: a scalar column is cast in place, None left alone; for a
\* repeated column the values at position row_no of each row's nested list
cast_column(values, cast_function, row_no) ==
    IF row_no = NoRowNo
    THEN [i \in 1..Len(values) |->
            IF values[i] # None THEN Apply(cast_function, values[i]) ELSE values[i]]
    ELSE [i \in 1..Len(values) |->
            IF row_no < Len(values[i]) /\ values[i][row_no + 1] # None
            THEN Apply(cast_function, values[i][row_no + 1])
            ELSE None]

\* cast_all_column: raises for a type cast_mapping does not know
cast_all_column(values, values_type, row_no) ==
    LET m == cast_mapping(values_type)
    IN  IF m.fn = "None"
        THEN [error |-> "Not Support to type:" \o values_type \o ".",
              values |-> <<>>, dtype |-> "None"]
        ELSE [error |-> "", values |-> cast_column(values, m.fn, row_no),
              dtype |-> m.dtype]

\* pd.Series(data=values, dtype=dtype): numpy's coercion of None to the dtype
\* (float: NaN, datetime64: NaT, bool: bool(None) = False; no dtype: object)
pd_Series(values, dtype) ==
    [i \in 1..Len(values) |->
        IF values[i] # None THEN values[i]
        ELSE CASE dtype = "float64"        -> NaN
               [] dtype = "datetime64[ns]" -> NaT
               [] dtype = "bool"           -> Bool(FALSE)
               [] OTHER                    -> None]

\* one entry of columns_data: (name, Series)
Column(name, values, dtype) ==
    [name |-> name, dtype |-> dtype, values |-> pd_Series(values, dtype)]

\* what a call gives: a table (status "ok") or a raised exception
Returned(columns) ==
    [status |-> "ok", exception |-> "", message |-> "", columns |-> columns]
Raised(exception, message) ==
    [status |-> "error", exception |-> exception, message |-> message, columns |-> <<>>]

\* pd.DataFrame.from_items(columns_data): keys, values = lzip(*items) cannot
\* unpack an empty list
from_items(columns_data) ==
    IF columns_data = <<>>
    THEN Raised("ValueError", "not enough values to unpack")
    ELSE Returned(columns_data)

\* max([len(row_value) for row_value in row_values])
max_row_length(row_values) ==
    CHOOSE m \in {Len(row_values[i]) : i \in 1..Len(row_values)} :
        \A i \in 1..Len(row_values) : Len(row_values[i]) <= m

\* the for no_in_row loop of a REPEATED column: col_name_0 .. col_name_(max-1)
repeated_columns(row_values, col_name, col_type) ==
    [k \in 1..max_row_length(row_values) |->
        LET c == cast_all_column(row_values, col_type, k - 1)
        IN  Column(col_name \o "_" \o ToString(k - 1), c.values, c.dtype)]

\* the for index, col_dict in enumerate(schema) loop of __to_df; remaining is
\* the row page with the entries already consumed by del rows[0] removed
RECURSIVE to_df_loop(_, _, _, _)
to_df_loop(remaining, sch, index, columns_data) ==
    IF index > Len(sch) THEN from_items(columns_data)
    ELSE IF remaining = <<>> THEN Raised("IndexError", "list index out of range")
    ELSE
        LET col_dict == sch[index]
            row_values == Head(remaining)
        IN  IF col_dict.mode = "REPEATED"
            THEN IF row_values = <<>>
                 THEN Raised("ValueError", "max() arg is an empty sequence")
                 ELSE IF max_row_length(row_values) > 0
                        /\ cast_mapping(col_dict.field_type).fn = "None"
                 THEN Raised("Exception",
                             cast_all_column(row_values, col_dict.field_type, 0).error)
                 ELSE to_df_loop(Tail(remaining), sch, index + 1,
                        columns_data \o repeated_columns(row_values, col_dict.name,
                                                         col_dict.field_type))
            ELSE LET c == cast_all_column(row_values, col_dict.field_type, NoRowNo)
                 IN  IF c.error # ""
                     THEN Raised("Exception", c.error)
                     ELSE to_df_loop(Tail(remaining), sch, index + 1,
                            Append(columns_data,
                                   Column(col_dict.name, c.values, c.dtype)))

\* __to_df without its len(rows) == 0 short-circuit
to_df_NoEmptyCheck(page, sch) == to_df_loop(page, sch, 1, <<>>)

\* BQLite.__to_df
to_df(page, sch) ==
    IF Len(page) = 0 THEN Returned(<<>>)
    ELSE to_df_loop(page, sch, 1, <<>>)

(***************************************************************************)
(* Inputs of __to_df.                                                      *)
(***************************************************************************)
TypeNames == KnownTypes \cup {"GEOGRAPHY"}
Modes == {"NULLABLE", "REPEATED"}

ColName(i) == "c" \o ToString(i)

\* raw strings the warehouse sends for a column of a type
RawLiterals(field_type) ==
    CASE field_type \in {"FLOAT", "INTEGER"} -> {Str("7")}
      [] field_type = "BOOLEAN"              -> {Str("true"), Str("false")}
      [] field_type = "TIMESTAMP"            -> {Str("2017-01-01")}
      [] field_type = "GEOGRAPHY"            -> {Str("POINT(1 2)")}
      [] OTHER                               -> {Str("a")}

Cells(field_type) == {None} \cup RawLiterals(field_type)

SeqsUpTo(S, n) == UNION {[1..k -> S] : k \in 0..n}

Min(a, b) == IF a <= b THEN a ELSE b

\* the raw cells a column holds: one per scalar, one per nested value
RECURSIVE CellCount(_, _)
CellCount(col, values) ==
    IF values = <<>> THEN 0
    ELSE (IF col.mode = "REPEATED" THEN Len(Head(values)) ELSE 1)
            + CellCount(col, Tail(values))

\* the values of one column over n rows, holding at most budget raw cells
RECURSIVE ColumnValues(_, _, _)
ColumnValues(col, n, budget) ==
    IF n = 0 THEN {<<>>}
    ELSE IF col.mode = "REPEATED"
    THEN UNION {{<<s>> \o r : r \in ColumnValues(col, n - 1, budget - Len(s))} :
                    s \in SeqsUpTo(Cells(col.field_type), Min(MaxRepeat, budget))}
    ELSE IF budget < n THEN {}
    ELSE {<<s>> \o r : s \in Cells(col.field_type), r \in ColumnValues(col, n - 1, budget - 1)}

SchemasOfLen(k) ==
    {[i \in 1..k |-> [name |-> ColName(i), field_type |-> f[i].t, mode |-> f[i].m]] :
        f \in [1..k -> [t : TypeNames, m : Modes]]}

\* the well-formed pages of a schema with n rows: one entry per column, at
\* most budget raw cells in all
RECURSIVE PagesFor(_, _, _)
PagesFor(sch, n, budget) ==
    IF sch = <<>> THEN {<<>>}
    ELSE UNION {{<<v>> \o p : p \in PagesFor(Tail(sch), n, budget - CellCount(Head(sch), v))} :
                    v \in ColumnValues(Head(sch), n, budget)}

\* rows is a page handed to __to_df with schema sch and n rows: a well-formed
\* one, one with an entry too many, one with the last entry missing or, with
\* no rows, the page with no entry at all (the transposition of no rows)
InputPage(sch, n) ==
    \/ n = 0 /\ rows = <<>>
    \/ rows \in PagesFor(sch, n, MaxCells)
    \/ \E page \in PagesFor(sch, n, MaxCells) : rows = Append(page, [i \in 1..n |-> None])
    \/ sch # <<>> /\ rows \in PagesFor(SubSeq(sch, 1, Len(sch) - 1), n, MaxCells)

(***************************************************************************)
(* The BQLite instance: credentials.                                       *)
(***************************************************************************)
NoCred == [src |-> "None", id |-> 0]
ExplicitCred == [src |-> "explicit", id |-> 0]
\* the object the k-th key-file load / the k-th default lookup returns
FileCred(k) == [src |-> "file", id |-> k]
DefaultCred(k) == [src |-> "default", id |-> k]

\* __generate_credential without the assignment to self.__credentials
generate_credential_NoMemo(creds, path, loads, lookups) ==
    IF creds # NoCred
    THEN [stored |-> creds, returned |-> creds, fileLoads |-> loads,
          defaultLookups |-> lookups]
    ELSE IF path # "None"
    THEN [stored |-> creds, returned |-> FileCred(loads + 1), fileLoads |-> loads + 1,
          defaultLookups |-> lookups]
    ELSE [stored |-> creds, returned |-> DefaultCred(lookups + 1), fileLoads |-> loads,
          defaultLookups |-> lookups + 1]

\* __generate_credential: self.__credentials afterwards (stored), the value
\* returned, and the loads and lookups performed so far
generate_credential(creds, path, loads, lookups) ==
    IF creds # NoCred
    THEN [stored |-> creds, returned |-> creds, fileLoads |-> loads,
          defaultLookups |-> lookups]
    ELSE IF path # "None"
    THEN [stored |-> FileCred(loads + 1), returned |-> FileCred(loads + 1),
          fileLoads |-> loads + 1, defaultLookups |-> lookups]
    ELSE [stored |-> DefaultCred(lookups + 1), returned |-> DefaultCred(lookups + 1),
          fileLoads |-> loads, defaultLookups |-> lookups + 1]

(***************************************************************************)
(* The remote warehouse.                                                   *)
(***************************************************************************)
DatasetNames == {"ds"}
TableNames == {"tbl"}

\* dtype kinds of the columns of the dataframes handed to create_table / to_bq
Frames == {<<>>, <<"i", "f">>, <<"b", "O">>, <<"S", "U">>, <<"M", "c">>}

\* type_mapping.get(dtype.kind, 'STRING')
type_mapping(kind) ==
    CASE kind = "i" -> "INTEGER"
      [] kind = "b" -> "BOOLEAN"
      [] kind = "f" -> "FLOAT"
      [] kind = "O" -> "STRING"
      [] kind = "S" -> "STRING"
      [] kind = "U" -> "STRING"
      [] kind = "M" -> "TIMESTAMP"
      [] OTHER      -> "STRING"

\* __to_bq_schema: one NULLABLE SchemaField per column, in column order
to_bq_schema(schema_df) ==
    [i \in 1..Len(schema_df) |->
        [name |-> ColName(i), field_type |-> type_mapping(schema_df[i]),
         mode |-> "NULLABLE"]]

\* table.exists()
TableExists(tbls, ds, t) == \E x \in tbls : x.dataset = ds /\ x.table = t

\* the schema table.reload() reads
RemoteSchema(tbls, ds, t) ==
    (CHOOSE x \in tbls : x.dataset = ds /\ x.table = t).schema

\* the remote tables after table.create() / after a query wrote its destination
WithTable(tbls, ds, t, sch) ==
    {x \in tbls : ~(x.dataset = ds /\ x.table = t)}
        \cup {[dataset |-> ds, table |-> t, schema |-> sch]}

WithoutTable(tbls, ds, t) == {x \in tbls : ~(x.dataset = ds /\ x.table = t)}

\* what an operation did: the requests issued, the remote tables, the outcome
Done(reqs, tbls, res) == [calls |-> reqs, tables |-> tbls, result |-> res]

DatasetMissing(ds) == Raised("Exception", "Dataset " \o ds \o " does not exist.")

\* create_table after __prepare_client
create_table(dsets, tbls, schema_df, ds, t) ==
    IF ds \notin dsets
    THEN Done(<<"dataset.exists">>, tbls, DatasetMissing(ds))
    ELSE IF TableExists(tbls, ds, t)
    THEN Done(<<"dataset.exists", "table.exists">>, tbls,
              Raised("Exception", "Table " \o ds \o ":" \o t \o " already exist."))
    ELSE Done(<<"dataset.exists", "table.exists", "table.create">>,
              WithTable(tbls, ds, t, to_bq_schema(schema_df)), Returned(<<>>))

\* delete_table after __prepare_client
delete_table(dsets, tbls, ds, t) ==
    IF ds \notin dsets
    THEN Done(<<"dataset.exists">>, tbls, DatasetMissing(ds))
    ELSE IF ~TableExists(tbls, ds, t)
    THEN Done(<<"dataset.exists", "table.exists">>, tbls,
              Raised("Exception", "Table " \o ds \o ":" \o t \o " does not exist."))
    ELSE Done(<<"dataset.exists", "table.exists", "table.delete">>,
              WithoutTable(tbls, ds, t), Returned(<<>>))

\* BQLiteTable.insert_data: no request for a table without schema; the
\* service answers the insertAll request with insertErrors or without
insert_data(reqs, tbls, table_schema, insertErrors) ==
    IF Len(table_schema) = 0
    THEN Done(reqs, tbls, Raised("ValueError", "Table has no schema"))
    ELSE IF insertErrors
    THEN Done(Append(reqs, "tabledata.insertAll"), tbls,
              Raised("Exception", "insertErrors"))
    ELSE Done(Append(reqs, "tabledata.insertAll"), tbls, Returned(<<>>))

\* to_bq after __prepare_client
to_bq(dsets, tbls, load_df, ds, t, insertErrors) ==
    IF ds \notin dsets
    THEN Done(<<"dataset.exists">>, tbls, DatasetMissing(ds))
    ELSE IF TableExists(tbls, ds, t)
    THEN insert_data(<<"dataset.exists", "table.exists", "table.reload">>, tbls,
                     RemoteSchema(tbls, ds, t), insertErrors)
    ELSE insert_data(<<"dataset.exists", "table.exists", "table.create">>,
                     WithTable(tbls, ds, t, to_bq_schema(load_df)),
                     to_bq_schema(load_df), insertErrors)

(***************************************************************************)
(* Query jobs.                                                             *)
(***************************************************************************)
NoError == "None"
NoJob == [state |-> "None", error_result |-> NoError]

\* what the service may report for a job last seen in state st; a job
\* writing into a dataset that does not exist can only end in error
JobReports(st, mustFail, mustEnd) ==
    {[state |-> s, error_result |-> e] :
        s \in (CASE st = "DONE" -> {"DONE"}
                 [] st = "RUNNING" -> {"RUNNING", "DONE"}
                 [] OTHER -> {"PENDING", "RUNNING", "DONE"}) \ (IF mustEnd
                                                               THEN {"PENDING", "RUNNING"}
                                                               ELSE {}),
        e \in {NoError, "notFound"}}
    \ ({[state |-> s, error_result |-> "notFound"] : s \in {"PENDING", "RUNNING"}}
        \cup (IF mustFail THEN {[state |-> "DONE", error_result |-> NoError]} ELSE {}))

\* the schema of the rows a query writes into its destination table
QuerySchema == <<[name |-> ColName(1), field_type |-> "STRING", mode |-> "NULLABLE"]>>

\* the remote tables once the service reports rep for a job writing ds.t
AfterJob(tbls, dsets, ds, t, rep) ==
    IF rep.state = "DONE" /\ rep.error_result = NoError /\ ds \in dsets
    THEN WithTable(tbls, ds, t, QuerySchema)
    ELSE tbls

\* the loop condition of read_to_bq with retry_count >= 0
keeps_polling_OneMore(retries, state) == retries >= 0 /\ state # "DONE"

\* the loop condition of read_to_bq: retry_count > 0 and query.state != 'DONE'
keeps_polling(retries, state) == retries > 0 /\ state # "DONE"

(***************************************************************************)
(* Result pages of read_bq.                                                *)
(***************************************************************************)
\* the raw cell of column c of row r of page p
Cell(p, r, c) == Str(ToString(100 * p + 10 * r + c))

\* the pages of a result of w columns with sizes[p] rows in page p
PagesOf(sizes, w) ==
    [p \in 1..Len(sizes) |-> [r \in 1..sizes[p] |-> [c \in 1..w |-> Cell(p, r, c)]]]

\* list(map(list, zip(*rows))): no entry at all for a page without rows
Transpose(page) ==
    IF page = <<>> THEN <<>>
    ELSE [c \in 1..Len(page[1]) |-> [r \in 1..Len(page) |-> page[r][c]]]

\* query.schema of a result of w columns
ResultSchema(w) ==
    [c \in 1..w |-> [name |-> ColName(c), field_type |-> "STRING", mode |-> "NULLABLE"]]

(***************************************************************************)
(* State.                                                                  *)
(***************************************************************************)
dfVars == <<schema, rows>>
credVars == <<given_credentials, credentials, json_key_filepath, fileLoads,
              defaultLookups, usedCreds>>
remoteVars == <<datasets, tables, tablesBefore>>
opVars == <<op, opCount, calls>>
jobVars == <<job, observedError, wait_timeout, retry_count, ticks, ticksAfterDone,
             warned, reloads>>
fetchVars == <<pages, page_token, fetched>>

vars == <<schema, rows, result, pc, given_credentials, credentials, json_key_filepath,
          fileLoads, defaultLookups, usedCreds, datasets, tables, tablesBefore, op,
          opCount, calls, job, observedError, wait_timeout, retry_count, ticks,
          ticksAfterDone, warned, reloads, pages, page_token, fetched>>

\* no call has returned yet
NoResult == [status |-> "none", exception |-> "", message |-> "", columns |-> <<>>]
NoOp == [name |-> "None", dataset |-> "None", table |-> "None"]

\* the per-operation variables before any operation
NoOperation ==
    /\ op = NoOp /\ opCount = 0 /\ calls = <<>>
    /\ job = NoJob /\ observedError = FALSE
    /\ wait_timeout = 0 /\ retry_count = 0 /\ ticks = 0 /\ ticksAfterDone = 0
    /\ warned = FALSE /\ reloads = 0
    /\ pages = <<>> /\ page_token = 0 /\ fetched = <<>>

\* BQLite.__init__, and a warehouse in any state
Init ==
    /\ given_credentials \in {NoCred, ExplicitCred}
    /\ credentials = given_credentials
    /\ json_key_filepath \in {"None", "key.json"}
    /\ fileLoads = 0 /\ defaultLookups = 0 /\ usedCreds = <<>>
    /\ datasets \in SUBSET DatasetNames
    /\ tables \in SUBSET {[dataset |-> ds, table |-> t, schema |-> QuerySchema] :
                            ds \in datasets, t \in TableNames}
    /\ tablesBefore = tables
    /\ NoOperation
    /\ schema = <<>> /\ rows = <<>> /\ result = NoResult
    /\ pc = "idle"

\* the start of a public operation: __prepare_client, and a fresh record of
\* what the operation does
Begin(name, ds, t) ==
    /\ pc = "idle"
    /\ opCount < MaxOps
    /\ opCount' = opCount + 1
    /\ op' = [name |-> name, dataset |-> ds, table |-> t]
    /\ LET g == generate_credential(credentials, json_key_filepath, fileLoads,
                                    defaultLookups)
       IN  /\ credentials' = g.stored
           /\ fileLoads' = g.fileLoads
           /\ defaultLookups' = g.defaultLookups
           /\ usedCreds' = Append(usedCreds, g.returned)
    /\ tablesBefore' = tables
    /\ UNCHANGED <<given_credentials, json_key_filepath, datasets>>

NoJobVars ==
    /\ job' = NoJob /\ observedError' = FALSE
    /\ wait_timeout' = 0 /\ retry_count' = 0 /\ ticks' = 0 /\ ticksAfterDone' = 0
    /\ warned' = FALSE /\ reloads' = 0

NoFetchVars ==
    /\ pages' = <<>> /\ page_token' = 0 /\ fetched' = <<>>
    /\ schema' = <<>> /\ rows' = <<>>

\* an operation that runs to its end in one step
Finish(d) ==
    /\ calls' = d.calls
    /\ tables' = d.tables
    /\ result' = d.result
    /\ pc' = "returned"
    /\ NoJobVars /\ NoFetchVars

CreateTable ==
    \E ds \in DatasetNames, t \in TableNames, schema_df \in Frames :
        /\ Begin("create_table", ds, t)
        /\ Finish(create_table(datasets, tables, schema_df, ds, t))

DeleteTable ==
    \E ds \in DatasetNames, t \in TableNames :
        /\ Begin("delete_table", ds, t)
        /\ Finish(delete_table(datasets, tables, ds, t))

ToBq ==
    \E ds \in DatasetNames, t \in TableNames, load_df \in Frames, insertErrors \in BOOLEAN :
        /\ Begin("to_bq", ds, t)
        /\ Finish(to_bq(datasets, tables, load_df, ds, t, insertErrors))

\* read_to_bq up to query.begin(client) and retry_count = wait_timeout/10
ReadToBqBegin ==
    \E ds \in DatasetNames, t \in TableNames, timeout \in 0..MaxWaitTimeout :
        \E rep \in JobReports("None", ds \notin datasets, FALSE) :
            /\ Begin("read_to_bq", ds, t)
            /\ calls' = <<"jobs.insert">>
            /\ job' = rep
            /\ observedError' = (rep.state = "DONE" /\ rep.error_result # NoError)
            /\ tables' = AfterJob(tables, datasets, ds, t, rep)
            /\ wait_timeout' = timeout
            /\ retry_count' = timeout
            /\ ticks' = 0 /\ ticksAfterDone' = 0 /\ warned' = FALSE /\ reloads' = 0
            /\ result' = NoResult
            /\ pc' = "read_to_bq_poll"
            /\ NoFetchVars

\* one turn of the polling loop: retry_count -= 1; sleep; query.reload()
ReadToBqPoll ==
    /\ pc = "read_to_bq_poll"
    /\ keeps_polling(retry_count, job.state)
    /\ \E rep \in JobReports(job.state, op.dataset \notin datasets, FALSE) :
        /\ job' = rep
        /\ observedError' = (rep.state = "DONE" /\ rep.error_result # NoError)
        /\ tables' = AfterJob(tables, datasets, op.dataset, op.table, rep)
    /\ retry_count' = retry_count - 10
    /\ ticks' = ticks + 1
    /\ ticksAfterDone' = ticksAfterDone + (IF job.state = "DONE" THEN 1 ELSE 0)
    /\ calls' = Append(calls, "jobs.get")
    /\ UNCHANGED <<result, pc, wait_timeout, warned, reloads, op, opCount, tablesBefore,
                   datasets>>
    /\ UNCHANGED <<credVars, fetchVars, dfVars>>

\* the end of read_to_bq: the warning when the job is not DONE, and the return
ReadToBqReturn ==
    /\ pc = "read_to_bq_poll"
    /\ ~keeps_polling(retry_count, job.state)
    /\ warned' = (job.state # "DONE")
    /\ result' = Returned(<<>>)
    /\ pc' = "returned"
    /\ UNCHANGED <<job, observedError, wait_timeout, retry_count, ticks, ticksAfterDone,
                   reloads>>
    /\ UNCHANGED <<credVars, remoteVars, opVars, fetchVars, dfVars>>

\* read_bq up to query.run(client): the query completes within the request
\* or is left to __wait_for_job
ReadBqRun ==
    \E complete \in BOOLEAN, w \in 1..MaxWidth, n \in 1..MaxPages :
        \E sizes \in [1..n -> 0..MaxPageRows] :
            /\ Begin("read_bq", "None", "None")
            /\ calls' = <<"jobs.query">>
            /\ job' = [state |-> IF complete THEN "DONE" ELSE "RUNNING",
                       error_result |-> NoError]
            /\ pages' = PagesOf(sizes, w)
            /\ schema' = ResultSchema(w)
            /\ rows' = <<>>
            /\ page_token' = 0 /\ fetched' = <<>>
            /\ observedError' = FALSE
            /\ wait_timeout' = 0 /\ retry_count' = 0 /\ ticks' = 0
            /\ ticksAfterDone' = 0 /\ warned' = FALSE /\ reloads' = 0
            /\ result' = NoResult
            /\ pc' = IF complete THEN "read_bq_fetch" ELSE "wait_for_job"
            /\ UNCHANGED tables

\* one turn of __wait_for_job: job.reload(); DONE with an error_result raises,
\* DONE without returns, anything else sleeps
WaitForJob ==
    /\ pc = "wait_for_job"
    /\ \E rep \in JobReports(job.state, FALSE, reloads + 1 >= MaxReloads) :
        /\ job' = rep
        /\ observedError' = (rep.state = "DONE" /\ rep.error_result # NoError)
        /\ IF rep.state = "DONE"
           THEN IF rep.error_result # NoError
                THEN /\ result' = Raised("RuntimeError", rep.error_result)
                     /\ pc' = "returned"
                ELSE /\ result' = result
                     /\ pc' = "read_bq_fetch"
           ELSE /\ result' = result
                /\ pc' = "wait_for_job"
    /\ reloads' = reloads + 1
    /\ calls' = Append(calls, "jobs.get")
    /\ UNCHANGED <<wait_timeout, retry_count, ticks, ticksAfterDone, warned, op, opCount>>
    /\ UNCHANGED <<credVars, remoteVars, fetchVars, dfVars>>

\* the token a fetch of page p returns: the next page, none after the last
TokenAfter(p) == IF p < Len(pages) THEN p + 1 ELSE 0

\* rows, total_rows, page_token = query.fetch_data(); rows transposed
FetchData ==
    /\ pc = "read_bq_fetch"
    /\ rows' = Transpose(pages[1])
    /\ page_token' = TokenAfter(1)
    /\ fetched' = <<1>>
    /\ calls' = Append(calls, "getQueryResults")
    /\ pc' = "read_bq_loop"
    /\ UNCHANGED <<schema, result, pages, op, opCount>>
    /\ UNCHANGED <<credVars, remoteVars, jobVars>>

\* one turn of while page_token: the next page is fetched and transposed, and
\* each buffer rows[row_index] is extended by tmp_rows[row_index]
FetchNextPage ==
    /\ pc = "read_bq_loop"
    /\ page_token # 0
    /\ LET tmp_rows == Transpose(pages[page_token])
       IN  IF Len(rows) > Len(tmp_rows)
           THEN /\ result' = Raised("IndexError", "list index out of range")
                /\ pc' = "returned"
                /\ rows' = rows
           ELSE /\ rows' = [row_index \in 1..Len(rows) |->
                               rows[row_index] \o tmp_rows[row_index]]
                /\ result' = result
                /\ pc' = pc
    /\ page_token' = TokenAfter(page_token)
    /\ fetched' = Append(fetched, page_token)
    /\ calls' = Append(calls, "getQueryResults")
    /\ UNCHANGED <<schema, pages, op, opCount>>
    /\ UNCHANGED <<credVars, remoteVars, jobVars>>

\* return BQLite.__to_df(rows, query.schema)
ReadBqReturn ==
    /\ pc = "read_bq_loop"
    /\ page_token = 0
    /\ result' = to_df(rows, schema)
    /\ pc' = "returned"
    /\ UNCHANGED <<credVars, remoteVars, opVars, jobVars, fetchVars, dfVars>>

\* the caller has the outcome and the call's frame is gone: only the instance
\* and the warehouse keep their state
Leave ==
    /\ pc = "returned"
    /\ pc' = "idle"
    /\ op' = NoOp /\ calls' = <<>> /\ result' = NoResult
    /\ tablesBefore' = tables
    /\ NoJobVars /\ NoFetchVars
    /\ UNCHANGED <<credVars, datasets, tables, opCount>>

Next ==
    \/ CreateTable
    \/ DeleteTable
    \/ ToBq
    \/ ReadToBqBegin
    \/ ReadToBqPoll
    \/ ReadToBqReturn
    \/ ReadBqRun
    \/ WaitForJob
    \/ FetchData
    \/ FetchNextPage
    \/ ReadBqReturn
    \/ Leave

Spec == Init /\ [][Next]_vars

\* an instance on which only read_to_bq is called
NextReadToBq ==
    \/ ReadToBqBegin
    \/ ReadToBqPoll
    \/ ReadToBqReturn
    \/ Leave

\* the single thread keeps running: a step that can be taken is taken
SpecReadToBq == Init /\ [][NextReadToBq]_vars /\ WF_vars(NextReadToBq)

(***************************************************************************)
(* __to_df on its own.                                                     *)
(***************************************************************************)
InitToDf ==
    /\ \E k \in SchemaLens, n \in 0..MaxRows :
          /\ schema \in SchemasOfLen(k)
          /\ InputPage(schema, n)
    /\ result = NoResult
    /\ pc = "to_df"
    /\ given_credentials = NoCred /\ credentials = NoCred /\ json_key_filepath = "None"
    /\ fileLoads = 0 /\ defaultLookups = 0 /\ usedCreds = <<>>
    /\ datasets = {} /\ tables = {} /\ tablesBefore = {}
    /\ NoOperation

\* the call BQLite.__to_df(rows, schema)
ToDf ==
    /\ pc = "to_df"
    /\ result' = to_df(rows, schema)
    /\ pc' = "done"
    /\ UNCHANGED <<credVars, remoteVars, opVars, jobVars, fetchVars, dfVars>>

NextToDf == ToDf

SpecToDf == InitToDf /\ [][NextToDf]_vars

(***************************************************************************)
(* Properties of __to_df (SpecToDf).                                       *)
(***************************************************************************)
Called == pc = "done"

UnknownColumns == {i \in 1..Len(schema) : schema[i].field_type \notin KnownTypes}

NotSupportMessage(i) == "Not Support to type:" \o schema[i].field_type \o "."

\* the output columns of schema column i hold its name, or its name and an index
EmittedNames(i) ==
    {schema[i].name} \cup {schema[i].name \o "_" \o ToString(k) : k \in 0..MaxRepeat}

\* the number of output columns schema column i expands to
Width(i) ==
    IF schema[i].mode = "REPEATED" THEN max_row_length(rows[i]) ELSE 1

RECURSIVE WidthBefore(_)
WidthBefore(i) == IF i <= 1 THEN 0 ELSE WidthBefore(i - 1) + Width(i - 1)

\* C1: a None at row r of a non-REPEATED column is a null at row r of the
\* output column of that name, whatever the column's logical type
C1_NullStaysNull ==
    (Called /\ result.status = "ok") =>
        \A i \in 1..Len(schema) :
            (schema[i].mode # "REPEATED" /\ i <= Len(rows)) =>
                \A j \in 1..Len(result.columns) :
                    result.columns[j].name = schema[i].name =>
                        \A r \in 1..Len(rows[i]) :
                            rows[i][r] = None => IsNull(result.columns[j].values[r])

\* C2: a REPEATED column n with maximum nested length max_len is emitted as
\* exactly the columns n_0 .. n_(max_len-1), contiguous and in order at its
\* schema position, one entry per row: cast(row[i]) where the row's nested
\* sequence is longer than i and that element is not None, null otherwise
C2_RepeatedExpansion ==
    (Called /\ result.status = "ok" /\ Len(rows) = Len(schema) /\ rows # <<>>) =>
        /\ Len(result.columns) = WidthBefore(Len(schema) + 1)
        /\ \A i \in 1..Len(schema) :
            schema[i].mode = "REPEATED" =>
                \A k \in 0..(Width(i) - 1) :
                    LET col == result.columns[WidthBefore(i) + k + 1]
                    IN  /\ col.name = schema[i].name \o "_" \o ToString(k)
                        /\ Len(col.values) = Len(rows[i])
                        /\ \A r \in 1..Len(rows[i]) :
                            IF k < Len(rows[i][r]) /\ rows[i][r][k + 1] # None
                            THEN col.values[r] =
                                    Apply(cast_mapping(schema[i].field_type).fn,
                                          rows[i][r][k + 1])
                            ELSE IsNull(col.values[r])

ColumnRaises(i) ==
    \/ i > Len(rows)
    \/ schema[i].mode = "REPEATED" /\ rows[i] = <<>>
    \/ /\ i \in UnknownColumns
       /\ schema[i].mode = "REPEATED" => max_row_length(rows[i]) > 0

ZeroRows ==
    \/ rows = <<>>
    \/ Len(rows) = Len(schema) /\ \A i \in 1..Len(rows) : rows[i] = <<>>

\* C4 as stated: a page with zero rows gives the table with no columns and
\* no rows, in both shapes of such a page
C4_ZeroRowsGiveEmptyTable ==
    (Called /\ ZeroRows) => result = Returned(<<>>)

\* C4 as amended: a page with no outer entries gives the table with no
\* columns and no rows, whatever the schema
C4_NoEntriesGiveEmptyTable ==
    (Called /\ rows = <<>>) => result = Returned(<<>>)

\* C4 witness: the empty page short-circuits a schema of two columns, one of
\* them REPEATED and of unknown type
C4_Witness ==
    /\ Called
    /\ rows = <<>>
    /\ Len(schema) = 2
    /\ schema[2].field_type = "GEOGRAPHY" /\ schema[2].mode = "REPEATED"
    /\ result = Returned(<<>>)

\* the page holds at least one row in every entry
HasRows == rows # <<>> /\ \A i \in 1..Len(rows) : rows[i] # <<>>

\* C9: a non-empty page whose number of entries differs from the number of
\* schema columns, in either direction, makes __to_df fail
C9_ColumnCountMismatchFails ==
    (Called /\ HasRows /\ Len(rows) # Len(schema)) => result.status = "error"

(***************************************************************************)
(* Properties of the facade (Spec, SpecReadToBq).                          *)
(***************************************************************************)
\* the polling loop so far: at most ceil(wait_timeout/10) ticks, none with
\* DONE already observed; a return with the job not DONE is a normal return
\* with the warning logged and the budget used up
C5_PollInv ==
    op.name = "read_to_bq" =>
        /\ ticks * 10 < wait_timeout + 10
        /\ ticksAfterDone = 0
        /\ (pc = "returned" /\ job.state # "DONE") =>
              /\ result = Returned(<<>>)
              /\ warned
              /\ retry_count <= 0

\* C5: read_to_bq's polling loop always comes to its end, after at most
\* ceil(wait_timeout/10) sleep-and-reload ticks, none of them after DONE was
\* observed, and an exhausted budget gives a normal return with a warning
C5_PollingTerminates ==
    /\ []C5_PollInv
    /\ (pc = "read_to_bq_poll") ~> (pc = "returned")

\* C5 witness: a wait_timeout of 11 s is used up in two ticks and the call
\* returns with the job still running
C5_Witness ==
    /\ pc = "returned"
    /\ op.name = "read_to_bq"
    /\ wait_timeout = 11
    /\ ticks = 2
    /\ job.state = "RUNNING"
    /\ warned
    /\ result = Returned(<<>>)

\* C6: an operation that observed its job DONE with an error_result does not
\* return normally
C6_JobErrorFails ==
    (pc = "returned" /\ observedError) => result.status = "error"

GuardedOps == {"create_table", "delete_table", "to_bq", "read_to_bq"}

\* C7: the guards run before the effects: with the dataset missing nothing but
\* the dataset check is issued and the call fails; create_table on an
\* existing table issues no create and fails; delete_table on a missing
\* table issues no delete and fails; a failing guard leaves the tables alone
C7_GuardsBeforeEffects ==
    op.name \in GuardedOps =>
        /\ op.dataset \notin datasets =>
              /\ \A i \in 1..Len(calls) : calls[i] = "dataset.exists"
              /\ pc = "returned" => result = DatasetMissing(op.dataset)
              /\ tables = tablesBefore
        /\ (op.name = "create_table" /\ TableExists(tablesBefore, op.dataset, op.table)) =>
              /\ \A i \in 1..Len(calls) : calls[i] # "table.create"
              /\ result.status = "error"
              /\ tables = tablesBefore
        /\ (/\ op.name = "delete_table"
            /\ op.dataset \in datasets
            /\ ~TableExists(tablesBefore, op.dataset, op.table)) =>
              /\ \A i \in 1..Len(calls) : calls[i] # "table.delete"
              /\ result.status = "error"
              /\ tables = tablesBefore

\* the credentials the constructor's arguments select
SelectedCred ==
    IF given_credentials # NoCred THEN given_credentials
    ELSE IF json_key_filepath # "None" THEN FileCred(1)
    ELSE DefaultCred(1)

PageColumn(page, c) == [r \in 1..Len(page) |-> page[r][c]]

\* the values of column c of pages 1..k, in page order
RECURSIVE ConcatColumn(_, _)
ConcatColumn(c, k) ==
    IF k = 0 THEN <<>> ELSE ConcatColumn(c, k - 1) \o PageColumn(pages[k], c)

\* read_bq's buffer of column c
ColumnBuffer(c) == IF c <= Len(rows) THEN rows[c] ELSE <<>>

\* C10: the fetch loop requests every page once and in order, no fetch makes
\* it fail, and when it is left the buffer of every column is the
\* concatenation, in page order, of that column's values
C10_FetchConcatenates ==
    (op.name = "read_bq" /\ fetched # <<>>) =>
        /\ result.exception # "IndexError"
        /\ (pc = "returned" \/ (pc = "read_bq_loop" /\ page_token = 0)) =>
              /\ fetched = [i \in 1..Len(pages) |-> i]
              /\ \A c \in 1..Len(schema) : ColumnBuffer(c) = ConcatColumn(c, Len(pages))
====
